---------------------------- MODULE Spec2Model ----------------------------
(***************************************************************************)
(* Model of src/code.py: the ledger normalizer (merge_excel_rows), the     *)
(* three header extractors and the reconciliation loop of main.            *)
(*                                                                         *)
(* Text is a sequence of one-character strings, so that strip, lower,      *)
(* split, replace and the lexicographic sort act on characters as the      *)
(* Python string methods do.  A missing spreadsheet cell (NaN) is the      *)
(* one-element sequence NaN, which is no text of the model.                *)
(***************************************************************************)
EXTENDS Naturals, Sequences, FiniteSets, TLC

VARIABLES
    comment,   \* extract_comment_header: the file, the read position, data, current_key
    java,      \* extract_java_header: the file, the read position, header_started, lines, data
    word,      \* extract_word_cases / extract_word_header: tables, metadata, cases, result
    merge,     \* merge_excel_rows applied once and twice to a DataFrame
    main       \* main: df, all_files, excel_map, processed_files, results, the report

vars == <<comment, java, word, merge, main>>

Idle == [pc |-> "idle"]

----------------------------------------------------------------------------
(* Python string methods on sequences of characters.                       *)

UpperCase == <<"A","B","C","D","E","F","G","H","I","J","K","L","M",
               "N","O","P","Q","R","S","T","U","V","W","X","Y","Z">>
LowerCase == <<"a","b","c","d","e","f","g","h","i","j","k","l","m",
               "n","o","p","q","r","s","t","u","v","w","x","y","z">>

\* str.isspace for one character
IsSpace(c) == c \in {" ", "\n", "\t", "\r"}

RECURSIVE LStripSpace(_)
LStripSpace(s) ==
    IF s # <<>> /\ IsSpace(Head(s)) THEN LStripSpace(Tail(s)) ELSE s

RECURSIVE RStripSpace(_)
RStripSpace(s) ==
    IF s # <<>> /\ IsSpace(s[Len(s)])
    THEN RStripSpace(SubSeq(s, 1, Len(s) - 1))
    ELSE s

\* str.strip()
Strip(s) == RStripSpace(LStripSpace(s))

\* str.lstrip(ch): only leading occurrences of the one character ch
RECURSIVE LStripChar(_, _)
LStripChar(s, ch) ==
    IF s # <<>> /\ Head(s) = ch THEN LStripChar(Tail(s), ch) ELSE s

LowerChar(c) ==
    IF \E i \in 1..Len(UpperCase) : UpperCase[i] = c
    THEN LowerCase[CHOOSE i \in 1..Len(UpperCase) : UpperCase[i] = c]
    ELSE c

\* str.lower()
Lower(s) == [i \in 1..Len(s) |-> LowerChar(s[i])]

\* s.startswith(pat)
StartsWith(s, pat) == Len(s) >= Len(pat) /\ SubSeq(s, 1, Len(pat)) = pat

\* s.find(pat) + 1: the first position where pat occurs in s, 0 when it does not
IndexOf(s, pat) ==
    LET hits == {i \in 1..(Len(s) + 1) :
                    i + Len(pat) - 1 <= Len(s) /\ SubSeq(s, i, i + Len(pat) - 1) = pat}
    IN  IF hits = {} THEN 0 ELSE CHOOSE i \in hits : \A j \in hits : i <= j

\* pat in s
Contains(s, pat) == IndexOf(s, pat) > 0

\* s.replace(pat, ""), pat non-empty
RECURSIVE Remove(_, _)
Remove(s, pat) ==
    LET i == IndexOf(s, pat)
    IN  IF i = 0 THEN s
        ELSE SubSeq(s, 1, i - 1) \o Remove(SubSeq(s, i + Len(pat), Len(s)), pat)

\* s.replace(a, b) for single characters a, b
ReplaceChar(s, a, b) == [i \in 1..Len(s) |-> IF s[i] = a THEN b ELSE s[i]]

\* s.split(pat): the pieces between the occurrences of pat
RECURSIVE Split(_, _)
Split(s, pat) ==
    LET i == IndexOf(s, pat)
    IN  IF i = 0 THEN <<s>>
        ELSE <<SubSeq(s, 1, i - 1)>> \o Split(SubSeq(s, i + Len(pat), Len(s)), pat)

\* s.split(pat, 1) where pat occurs in s: <<before, after>>
SplitOnce(s, pat) ==
    LET i == IndexOf(s, pat)
    IN  <<SubSeq(s, 1, i - 1), SubSeq(s, i + Len(pat), Len(s))>>

\* dict assignment d[k] = v
Put(d, k, v) == [x \in (DOMAIN d) \cup {k} |-> IF x = k THEN v ELSE d[x]]

\* the empty dict {}
EmptyDict == [x \in {} |-> <<>>]

\* the sequences over S of length 0..n
SeqsUpTo(S, n) == UNION {[1..k -> S] : k \in 0..n}

----------------------------------------------------------------------------
(* extract_comment_header (src/code.py 59-73).  One step per line read.    *)
(* current_key is a set: {} for None, {k} for the key k.                   *)

MaxCommentLines == 3

CommentLines == {
    <<"#"," ","I","D",":"," ","4","2">>,                    \* # ID: 42
    <<"#"," ","m","o","r","e"," ","t","e","x","t">>,        \* # more text
    <<"#",":"," ","x">>,                                    \* #: x      (empty key)
    <<"#","A",":","b",":","c">>,                            \* #A:b:c    (two colons)
    <<" ","#"," ","I","D",":"," ","9">>,                    \*  # ID: 9  (indented)
    <<"i","m","p","o","r","t">>,                            \* import    (code)
    <<>> }                                                  \* a blank line

\* line.strip().startswith("#")
IsCommentLine(line) == StartsWith(Strip(line), <<"#">>)

\* content = line.lstrip("#").strip()
CommentContent(line) == Strip(LStripChar(line, "#"))

\* `elif current_key:`: None and the empty string are both falsy
Truthy(current_key) == \E k \in current_key : k # <<>>

CommentInit ==
    /\ comment \in {[pc |-> "reading", file |-> f, pos |-> 1,
                     data |-> EmptyDict, current_key |-> {}] :
                        f \in SeqsUpTo(CommentLines, MaxCommentLines)}
    /\ java = Idle /\ word = Idle /\ merge = Idle /\ main = Idle

CommentAtLine ==
    /\ comment.pc = "reading"
    /\ comment.pos <= Len(comment.file)

\* lines 67-70: a comment line with a colon
CommentKeyValue ==
    /\ CommentAtLine
    /\ LET line    == comment.file[comment.pos]
           content == CommentContent(line)
           kv      == SplitOnce(content, <<":">>)
       IN  /\ IsCommentLine(line)
           /\ Contains(content, <<":">>)
           /\ comment' = [comment EXCEPT
                            !.data = Put(@, Strip(kv[1]), Strip(kv[2])),
                            !.current_key = {Strip(kv[1])},
                            !.pos = @ + 1]
    /\ UNCHANGED <<java, word, merge, main>>

\* lines 71-72: a comment line without a colon, current_key truthy
CommentContinuation ==
    /\ CommentAtLine
    /\ LET line    == comment.file[comment.pos]
           content == CommentContent(line)
           k       == CHOOSE k \in comment.current_key : TRUE
       IN  /\ IsCommentLine(line)
           /\ ~Contains(content, <<":">>)
           /\ Truthy(comment.current_key)
           /\ comment' = [comment EXCEPT
                            !.data = Put(@, k, @[k] \o <<"\n">> \o Strip(content)),
                            !.pos = @ + 1]
    /\ UNCHANGED <<java, word, merge, main>>

\* lines 67, 71: a comment line without a colon, current_key falsy: nothing happens
CommentDropped ==
    /\ CommentAtLine
    /\ LET line == comment.file[comment.pos]
       IN  /\ IsCommentLine(line)
           /\ ~Contains(CommentContent(line), <<":">>)
           /\ ~Truthy(comment.current_key)
           /\ comment' = [comment EXCEPT !.pos = @ + 1]
    /\ UNCHANGED <<java, word, merge, main>>

\* lines 64-65: the first non-comment line ends the scan
CommentBreak ==
    /\ CommentAtLine
    /\ ~IsCommentLine(comment.file[comment.pos])
    /\ comment' = [comment EXCEPT !.pc = "done"]
    /\ UNCHANGED <<java, word, merge, main>>

\* line 63, 73: the end of the file ends the scan
CommentEOF ==
    /\ comment.pc = "reading"
    /\ comment.pos > Len(comment.file)
    /\ comment' = [comment EXCEPT !.pc = "done"]
    /\ UNCHANGED <<java, word, merge, main>>

CommentNext ==
    \/ CommentKeyValue
    \/ CommentContinuation
    \/ CommentDropped
    \/ CommentBreak
    \/ CommentEOF

SpecComment == CommentInit /\ [][CommentNext]_vars


(* C8, as stated: scanning stops at the first non-comment line; a line     *)
(* with a colon sets key to value and makes the key active; a line without  *)
(* a colon is appended to the active key's value whenever some key/value    *)
(* line has been seen earlier, and is dropped before any.                   *)
RECURSIVE ClaimedCommentHeader(_, _, _, _)
ClaimedCommentHeader(file, pos, data, active) ==
    IF pos > Len(file) \/ ~IsCommentLine(file[pos]) THEN data
    ELSE LET content == CommentContent(file[pos])
             kv      == SplitOnce(content, <<":">>)
             k       == CHOOSE k \in active : TRUE
         IN  IF Contains(content, <<":">>)
             THEN ClaimedCommentHeader(file, pos + 1,
                      Put(data, Strip(kv[1]), Strip(kv[2])), {Strip(kv[1])})
             ELSE IF active # {}
             THEN ClaimedCommentHeader(file, pos + 1,
                      Put(data, k, data[k] \o <<"\n">> \o content), active)
             ELSE ClaimedCommentHeader(file, pos + 1, data, active)

\* C8: the mapping extract_comment_header returns is the one the claim describes
\* (refuted by the file "#: x", "# more text": the continuation is dropped
\* although a key/value line, with the empty key, was seen).
C8_ContinuationAfterAnyKeyValue ==
    comment.pc = "done" =>
        comment.data = ClaimedCommentHeader(comment.file, 1, EmptyDict, {})

----------------------------------------------------------------------------
(* extract_java_header (src/code.py 77-96).  One step per line read; the   *)
(* step that ends the scan parses the accumulated lines.                   *)

MaxJavaLines == 4

\* "public static String Header"
JavaMarker == <<"p","u","b","l","i","c"," ","s","t","a","t","i","c"," ",
                "S","t","r","i","n","g"," ","H","e","a","d","e","r">>

\* '";'
JavaTerminator == <<"\"", ";">>

JavaFileLines == {
    JavaMarker \o <<" ","=">>,                               \* public static String Header =
    <<" ","\"","i","d",":"," ","7","\\","n","\"","+">>,      \*  "id: 7\n"+
    <<"\"","K",":","v","\\","n","\""," ","+">>,              \* "K:v\n" +
    <<"\"","a","u","t","h","o","r",":","y","\"",";">>,       \* "author:y";
    <<"}">> }                                                \* }

\* JAVA_KEY_MAP (src/code.py 23-28)
JAVA_KEY_MAP ==
    (<<"i","d">> :> <<"I","D">>) @@
    (<<"d","e","s","c","r","i","p","t","i","o","n">> :>
        <<"O","b","j","e","c","t","i","v","e">>) @@
    (<<"t","i","t","l","e">> :> <<"F","i","l","e","n","a","m","e">>) @@
    (<<"a","u","t","h","o","r">> :> <<"A","u","t","h","o","r">>)

\* "".join(lines)
RECURSIVE Concat(_)
Concat(ss) == IF ss = <<>> THEN <<>> ELSE Head(ss) \o Concat(Tail(ss))

\* lines 92-95: the key/value pairs of the logical lines, later ones overwriting
RECURSIVE JavaPairs(_, _)
JavaPairs(pieces, data) ==
    IF pieces = <<>> THEN data
    ELSE LET line == Head(pieces)
             kv   == SplitOnce(line, <<":">>)
             key  == Strip(kv[1])
             name == IF Lower(key) \in DOMAIN JAVA_KEY_MAP
                     THEN JAVA_KEY_MAP[Lower(key)] ELSE key
         IN  IF Contains(line, <<":">>)
             THEN JavaPairs(Tail(pieces), Put(data, name, Strip(kv[2])))
             ELSE JavaPairs(Tail(pieces), data)

\* lines 91-96
ParseJavaHeader(lines) ==
    LET full_header == Remove(Remove(Concat(lines), <<"\"", "+">>), <<"\"">>)
    IN  JavaPairs(Split(full_header, <<"\\", "n">>), EmptyDict)

JavaInit ==
    /\ java \in {[pc |-> "reading", file |-> f, pos |-> 1, header_started |-> FALSE,
                  lines |-> <<>>, data |-> EmptyDict] :
                     f \in SeqsUpTo(JavaFileLines, MaxJavaLines)}
    /\ comment = Idle /\ word = Idle /\ merge = Idle /\ main = Idle

JavaAtLine ==
    /\ java.pc = "reading"
    /\ java.pos <= Len(java.file)

\* lines 83-85: the marker line starts the header and is itself skipped
JavaHeaderStart ==
    /\ JavaAtLine
    /\ Contains(java.file[java.pos], JavaMarker)
    /\ java' = [java EXCEPT !.header_started = TRUE, !.pos = @ + 1]
    /\ UNCHANGED <<comment, word, merge, main>>

\* lines 86-88: the terminator line ends the scan and is not accumulated
JavaBreak ==
    /\ JavaAtLine
    /\ ~Contains(java.file[java.pos], JavaMarker)
    /\ java.header_started
    /\ Contains(java.file[java.pos], JavaTerminator)
    /\ java' = [java EXCEPT !.pc = "done", !.data = ParseJavaHeader(java.lines)]
    /\ UNCHANGED <<comment, word, merge, main>>

\* line 89: a header line is accumulated, stripped
JavaAppend ==
    /\ JavaAtLine
    /\ ~Contains(java.file[java.pos], JavaMarker)
    /\ java.header_started
    /\ ~Contains(java.file[java.pos], JavaTerminator)
    /\ java' = [java EXCEPT !.lines = Append(@, Strip(java.file[java.pos])),
                            !.pos = @ + 1]
    /\ UNCHANGED <<comment, word, merge, main>>

\* lines 82-86: a line before the marker is passed over
JavaSkip ==
    /\ JavaAtLine
    /\ ~Contains(java.file[java.pos], JavaMarker)
    /\ ~java.header_started
    /\ java' = [java EXCEPT !.pos = @ + 1]
    /\ UNCHANGED <<comment, word, merge, main>>

\* lines 82, 91-96: the end of the file ends the scan; what was accumulated is parsed
JavaEOF ==
    /\ java.pc = "reading"
    /\ java.pos > Len(java.file)
    /\ java' = [java EXCEPT !.pc = "done", !.data = ParseJavaHeader(java.lines)]
    /\ UNCHANGED <<comment, word, merge, main>>

JavaNext ==
    \/ JavaHeaderStart
    \/ JavaBreak
    \/ JavaAppend
    \/ JavaSkip
    \/ JavaEOF

SpecJava == JavaInit /\ [][JavaNext]_vars

\* the first line holding the marker phrase, 0 when there is none
FirstMarkerLine(file) ==
    LET hits == {i \in 1..Len(file) : Contains(file[i], JavaMarker)}
    IN  IF hits = {} THEN 0 ELSE CHOOSE i \in hits : \A j \in hits : i <= j

\* the header of the file is unterminated: the marker appears, no later line
\* holds the terminator
Unterminated(file) ==
    /\ FirstMarkerLine(file) > 0
    /\ \A i \in (FirstMarkerLine(file) + 1)..Len(file) :
           ~Contains(file[i], JavaTerminator)

\* C7: extract_java_header returns the empty mapping when the marker never
\* appears, and when it appears but no later line holds the terminator
\* (refuted by the marker line followed by  "id: 7\n"+  : the result is {ID: 7}).
C7_UnterminatedHeaderIsEmpty ==
    (java.pc = "done" /\ (FirstMarkerLine(java.file) = 0 \/ Unterminated(java.file)))
        => java.data = EmptyDict

----------------------------------------------------------------------------
(* merge_excel_rows (src/code.py 38-55).  A DataFrame is its columns, in   *)
(* order, and its rows, each a function from the columns to a cell; a cell *)
(* is text or NaN.  Dicts keep insertion order, so the groups, and the     *)
(* columns of the result, come in order of first appearance.               *)

\* a missing cell
NaN == <<"NaN">>

\* str(val) of a cell: text is itself, NaN prints as "nan"
StrOf(val) == IF val = NaN THEN <<"n","a","n">> ELSE val

\* the characters of the model in code-point order
CharOrder == <<"\t", "\n", "\r", " ", "\"", "#", "+", ",", ".",
               "0","1","2","3","4","5","6","7","8","9", ":", ";", "=",
               "A","B","C","D","E","F","G","H","I","J","K","L","M",
               "N","O","P","Q","R","S","T","U","V","W","X","Y","Z", "\\",
               "a","b","c","d","e","f","g","h","i","j","k","l","m",
               "n","o","p","q","r","s","t","u","v","w","x","y","z", "}">>

Ord(c) == CHOOSE i \in 1..Len(CharOrder) : CharOrder[i] = c

\* a < b on Python strings
RECURSIVE StrLess(_, _)
StrLess(a, b) ==
    IF a = <<>> THEN b # <<>>
    ELSE IF b = <<>> THEN FALSE
    ELSE IF Head(a) = Head(b) THEN StrLess(Tail(a), Tail(b))
    ELSE Ord(Head(a)) < Ord(Head(b))

\* sorted(S) for a set S of strings
RECURSIVE Sorted(_)
Sorted(S) ==
    IF S = {} THEN <<>>
    ELSE LET m == CHOOSE x \in S : \A y \in S \ {x} : StrLess(x, y)
         IN  <<m>> \o Sorted(S \ {m})

\* sep.join(ss)
RECURSIVE Join(_, _)
Join(sep, ss) ==
    IF ss = <<>> THEN <<>>
    ELSE IF Len(ss) = 1 THEN Head(ss)
    ELSE Head(ss) \o sep \o Join(sep, Tail(ss))

Range(f) == {f[x] : x \in DOMAIN f}

\* the elements of a sequence in order of first appearance: the keys of a dict
\* filled in that order
RECURSIVE Distinct(_)
Distinct(s) ==
    IF s = <<>> THEN <<>>
    ELSE <<Head(s)>> \o Distinct(SelectSeq(Tail(s), LAMBDA x : x # Head(s)))

\* line 43: str(row.get("Filename", "")).strip().lower()
RowKey(df, row) ==
    Lower(Strip(StrOf(IF "Filename" \in Range(df.columns)
                      THEN row["Filename"] ELSE <<>>)))

\* lines 42-46: grouped[filename][col], the stripped text of the present cells
GroupedValues(df, fname, col) ==
    LET rows == SelectSeq(df.rows,
                    LAMBDA r : RowKey(df, r) = fname /\ r[col] # NaN)
    IN  [i \in 1..Len(rows) |-> Strip(StrOf(rows[i][col]))]

\* lines 44-46: the columns of grouped[filename], in insertion order
GroupedColumns(df, fname) ==
    LET rows == SelectSeq(df.rows, LAMBDA r : RowKey(df, r) = fname)
    IN  Distinct(Concat([i \in 1..Len(rows) |->
                    SelectSeq(df.columns, LAMBDA c : rows[i][c] # NaN)]))

\* line 52: "\n".join(sorted(set(values)))
MergedValue(values) == Join(<<"\n">>, Sorted(Range(values)))

\* lines 50-52: "Filename" is set to the group key and then every column of
\* the group, "Filename" among them, is assigned its merged value
MergedRow(df, fname) ==
    LET data == GroupedColumns(df, fname)
    IN  [c \in {"Filename"} \cup Range(data) |->
            IF c \in Range(data)
            THEN MergedValue(GroupedValues(df, fname, c))
            ELSE fname]

\* the keys of merged_row, in insertion order
MergedRowColumns(df, fname) == Distinct(<<"Filename">> \o GroupedColumns(df, fname))

\* lines 42-43, 49: the group keys, in insertion order
GroupKeys(df) == Distinct([i \in 1..Len(df.rows) |-> RowKey(df, df.rows[i])])

\* lines 38-55; pd.DataFrame(merged) fills the cells a row lacks with NaN
merge_excel_rows(df) ==
    LET keys    == GroupKeys(df)
        columns == Distinct(Concat([i \in 1..Len(keys) |->
                       MergedRowColumns(df, keys[i])]))
    IN  [columns |-> columns,
         rows    |-> [i \in 1..Len(keys) |->
                        [c \in Range(columns) |->
                            IF c \in DOMAIN MergedRow(df, keys[i])
                            THEN MergedRow(df, keys[i])[c] ELSE NaN]]]

MaxRows == 2

LedgerColumns == <<"Filename", "Excel_ID">>

FilenameCells == { <<"a">>, <<"A">>, <<" ","a"," ">>, <<"b">>, <<" ">>, NaN }

ValueCells == { <<"7">>, <<"8">>, <<" ">>, NaN }

LedgerRows ==
    {[c \in Range(LedgerColumns) |-> IF c = "Filename" THEN f ELSE v] :
        f \in FilenameCells, v \in ValueCells}

MergeInit ==
    /\ merge \in {[pc |-> "start", df |-> [columns |-> LedgerColumns, rows |-> rs],
                   once |-> <<>>, twice |-> <<>>] :
                      rs \in SeqsUpTo(LedgerRows, MaxRows)}
    /\ comment = Idle /\ java = Idle /\ word = Idle /\ main = Idle

\* merge_excel_rows(df)
MergeOnce ==
    /\ merge.pc = "start"
    /\ merge' = [merge EXCEPT !.pc = "merged", !.once = merge_excel_rows(merge.df)]
    /\ UNCHANGED <<comment, java, word, main>>

\* merge_excel_rows(merge_excel_rows(df))
MergeTwice ==
    /\ merge.pc = "merged"
    /\ merge' = [merge EXCEPT !.pc = "remerged", !.twice = merge_excel_rows(merge.once)]
    /\ UNCHANGED <<comment, java, word, main>>

MergeNext ==
    \/ MergeOnce
    \/ MergeTwice

SpecMerge == MergeInit /\ [][MergeNext]_vars

\* the normalized filename of a source row: its "Filename", trimmed and lower-cased
NormalizedFilename(row) == Lower(Strip(StrOf(row["Filename"])))

\* C5: after merge_excel_rows there is exactly one merged record per distinct
\* normalized filename of the source rows, and the "Filename" of each merged
\* record is that normalized filename
\* (refuted by the one row Filename = "A": the merged "Filename" is "A", not "a").
C5_OneRecordPerNormalizedFilename ==
    merge.pc = "merged" =>
        LET names == {NormalizedFilename(merge.df.rows[i]) :
                          i \in 1..Len(merge.df.rows)}
            out   == merge.once.rows
        IN  /\ Len(out) = Cardinality(names)
            /\ \A n \in names :
                   Cardinality({i \in 1..Len(out) : out[i]["Filename"] = n}) = 1

\* C6: merge_excel_rows applied to its own output returns that output
\* (refuted by the rows (a, " ") and (a, "7"): the merged value "\n7" of the
\* first pass is stripped to "7" by the second).
C6_MergeIdempotent ==
    merge.pc = "remerged" => merge.twice = merge.once

----------------------------------------------------------------------------
(* extract_word_cases and extract_word_header (src/code.py 100-171).  A    *)
(* document is its tables, in order; a table is its rows; a row is the     *)
(* texts of its cells.  A Python set has no fixed iteration order, so the  *)
(* order of the identifiers in a diagnostic is chosen by the step.         *)

MaxCaseTables == 2

\* "another id"
AnotherId == <<"a","n","o","t","h","e","r"," ","i","d">>

\* "Case ID" and "case id"
CaseIdKeys == << <<"C","a","s","e"," ","I","D">>, <<"c","a","s","e"," ","i","d">> >>

\* "Word Template Issues"
WordTemplateIssues == <<"W","o","r","d"," ","T","e","m","p","l","a","t","e"," ",
                        "I","s","s","u","e","s">>

TemplateNotFound == <<"Template or test cases not found">>

MetadataTables == {
    \* ID | 1
    << << <<"I","D">>, <<"1">> >> >>,
    \* Another ID | c1; c2      Author | y
    << << <<"A","n","o","t","h","e","r"," ","I","D">>, <<"c","1",";"," ","c","2">> >>,
       << <<"A","u","t","h","o","r">>, <<"y">> >> >>,
    \* ID | 1      ID | 2 (the later row wins)      a row of one cell
    << << <<"I","D"," ">>, <<" ","1">> >>, << <<"I","D">>, <<"2">> >>, << <<"x">> >> >>,
    \* Word Template Issues | w      another id | c1
    << << WordTemplateIssues, <<"w">> >>, << AnotherId, <<"c","1">> >> >> }

CaseTables == {
    \* Case ID | c1      ID | 2
    << << <<"C","a","s","e"," ","I","D">>, <<"c","1">> >>, << <<"I","D">>, <<"2">> >> >>,
    \* case id | c3      Step | s      Step | t
    << << <<"c","a","s","e"," ","i","d">>, <<"c","3">> >>,
       << <<"S","t","e","p">>, <<"s">> >>, << <<"S","t","e","p">>, <<"t">> >> >>,
    \* ID | 3      an empty key      Author | z
    << << <<"I","D">>, <<"3">> >>, << <<" ">>, <<"v">> >>,
       << <<"A","u","t","h","o","r">>, <<"z">> >> >> }

Documents ==
    {<<>>} \cup {<<m>> \o cs : m \in MetadataTables, cs \in SeqsUpTo(CaseTables, MaxCaseTables)}

\* lines 107-113: the rows of table 0, a later row replacing an earlier one
RECURSIVE MetadataOf(_, _)
MetadataOf(rows, metadata) ==
    IF rows = <<>> THEN metadata
    ELSE LET row == Head(rows)
         IN  IF Len(row) < 2 \/ Strip(row[1]) = <<>>
             THEN MetadataOf(Tail(rows), metadata)
             ELSE MetadataOf(Tail(rows), Put(metadata, Strip(row[1]), Strip(row[2])))

\* lines 115-118: the identifiers the template lists
expected_ids(metadata) ==
    UNION {{Strip(p) : p \in Range(Split(ReplaceChar(metadata[k], ";", ","), <<",">>))}
              \ {<<>>} :
           k \in {x \in DOMAIN metadata : Contains(Lower(x), AnotherId)}}

\* lines 124-134: the rows of one case table, a repeated key accumulating
RECURSIVE CaseDataOf(_, _)
CaseDataOf(rows, case_data) ==
    IF rows = <<>> THEN case_data
    ELSE LET row   == Head(rows)
             key   == Strip(row[1])
             value == Strip(row[2])
         IN  IF Len(row) < 2 \/ key = <<>>
             THEN CaseDataOf(Tail(rows), case_data)
             ELSE IF key \in DOMAIN case_data
             THEN CaseDataOf(Tail(rows),
                      Put(case_data, key, case_data[key] \o <<"\n">> \o value))
             ELSE CaseDataOf(Tail(rows), Put(case_data, key, value))

\* lines 123-139: one case per table after the first
CasesOf(tables) ==
    [i \in 1..(Len(tables) - 1) |-> CaseDataOf(tables[i + 1], EmptyDict)]

\* line 136: case_data.get("Case ID") or case_data.get("case id"); empty for None
CaseId(case_data) ==
    IF CaseIdKeys[1] \in DOMAIN case_data /\ case_data[CaseIdKeys[1]] # <<>>
    THEN case_data[CaseIdKeys[1]]
    ELSE IF CaseIdKeys[2] \in DOMAIN case_data THEN case_data[CaseIdKeys[2]]
    ELSE <<>>

\* lines 136-138: the identifiers the cases carry
found_ids(cases) ==
    {Strip(CaseId(cases[i])) : i \in {j \in 1..Len(cases) : CaseId(cases[j]) # <<>>}}

\* the orders in which a set may be iterated
Orders(S) ==
    {o \in [1..Cardinality(S) -> S] : \A i, j \in 1..Cardinality(S) : o[i] = o[j] => i = j}

\* lines 141-145, the two set differences iterated in the orders given
Mismatches(missing, unlisted) ==
    (IF missing # <<>>
     THEN << <<"IDs in template but not in cases: ">> \o Join(<<",", " ">>, missing) >>
     ELSE <<>>)
    \o
    (IF unlisted # <<>>
     THEN << <<"Case IDs not listed in template: ">> \o Join(<<",", " ">>, unlisted) >>
     ELSE <<>>)

\* lines 153-159: the fields of all cases, a repeated key accumulating
RECURSIVE CombinedFields(_, _)
CombinedFields(cases, combined_fields) ==
    IF cases = <<>> THEN combined_fields
    ELSE LET case == Head(cases)
         IN  CombinedFields(Tail(cases),
                 [k \in (DOMAIN combined_fields) \cup (DOMAIN case) |->
                     IF k \in DOMAIN combined_fields /\ k \in DOMAIN case
                     THEN combined_fields[k] \o <<"\n">> \o case[k]
                     ELSE IF k \in DOMAIN case THEN case[k]
                     ELSE combined_fields[k]])

\* lines 161-166 with the else branch dropped: a metadata value is kept as it is
FlattenMetadataOnly(metadata, combined_fields) == metadata @@ combined_fields

\* lines 161-166: the metadata, then the case fields; on a key of the metadata
\* the case value is appended after a newline
Flatten(metadata, combined_fields) ==
    [k \in (DOMAIN metadata) \cup (DOMAIN combined_fields) |->
        IF k \in DOMAIN metadata /\ k \in DOMAIN combined_fields
        THEN metadata[k] \o <<"\n">> \o combined_fields[k]
        ELSE IF k \in DOMAIN metadata THEN metadata[k]
        ELSE combined_fields[k]]

\* lines 150-171
extract_word_header(metadata, cases, mismatches) ==
    LET result == Flatten(metadata, CombinedFields(cases, EmptyDict))
    IN  IF mismatches # <<>>
        THEN Put(result, WordTemplateIssues, Join(<<";", " ">>, mismatches))
        ELSE result

WordInit ==
    /\ word \in {[pc |-> "start", tables |-> d, metadata |-> EmptyDict, cases |-> <<>>,
                  mismatches |-> <<>>, result |-> EmptyDict] : d \in Documents}
    /\ comment = Idle /\ java = Idle /\ merge = Idle /\ main = Idle

\* lines 103-104: fewer than two tables
WordCasesMissing ==
    /\ word.pc = "start"
    /\ Len(word.tables) < 2
    /\ word' = [word EXCEPT !.pc = "cases", !.mismatches = <<TemplateNotFound>>]
    /\ UNCHANGED <<comment, java, merge, main>>

\* lines 106-147: the metadata, the cases and the diagnostics
WordCases ==
    /\ word.pc = "start"
    /\ Len(word.tables) >= 2
    /\ LET metadata == MetadataOf(word.tables[1], EmptyDict)
           cases    == CasesOf(word.tables)
           expected == expected_ids(metadata)
           found    == found_ids(cases)
       IN  \E missing \in Orders(expected \ found), unlisted \in Orders(found \ expected) :
               word' = [word EXCEPT !.pc = "cases", !.metadata = metadata,
                                    !.cases = cases,
                                    !.mismatches = Mismatches(missing, unlisted)]
    /\ UNCHANGED <<comment, java, merge, main>>

\* lines 150-171: the header-shaped view
WordHeader ==
    /\ word.pc = "cases"
    /\ word' = [word EXCEPT
                  !.pc = "done",
                  !.result = extract_word_header(word.metadata, word.cases, word.mismatches)]
    /\ UNCHANGED <<comment, java, merge, main>>

WordNext ==
    \/ WordCasesMissing
    \/ WordCases
    \/ WordHeader

SpecWord == WordInit /\ [][WordNext]_vars

\* the values of the rows of a table with at least two cells whose key is k,
\* in order
ValuesUnder(rows, k) ==
    LET hits == SelectSeq(rows, LAMBDA r : Len(r) >= 2 /\ Strip(r[1]) = k)
    IN  [i \in 1..Len(hits) |-> Strip(hits[i][2])]

\* the keys of a table: the non-empty first cells of its rows of two cells or more
KeysOf(rows) == {Strip(rows[i][1]) : i \in {j \in 1..Len(rows) : Len(rows[j]) >= 2}} \ {<<>>}

\* the value the metadata table gives k: that of its last row with the key
MetadataValue(tables, k) ==
    LET vs == ValuesUnder(tables[1], k) IN <<vs[Len(vs)]>>

\* the values the case tables give k, in document order
CaseValues(tables, k) ==
    Concat([i \in 1..(Len(tables) - 1) |-> ValuesUnder(tables[i + 1], k)])

\* C10 as stated: every key of the metadata table (the diagnostics field
\* aside) holds exactly its metadata value in the result
\* (refuted by the metadata ID | 1 and a case ID | 2: the result holds "1\n2").
C10_MetadataValueUnchanged ==
    (word.pc = "done" /\ Len(word.tables) >= 2) =>
        \A k \in KeysOf(word.tables[1]) \ {WordTemplateIssues} :
            word.result[k] = MetadataValue(word.tables, k)[1]

\* C10 as amended: for a document of two tables or more, the fields of the
\* result other than the diagnostics field are the keys of all tables, and
\* each holds the metadata value, if any, followed by the values of the case
\* rows with that key in document order, joined by newlines
C10_MetadataFirstThenCases ==
    (word.pc = "done" /\ Len(word.tables) >= 2) =>
        LET keys == UNION {KeysOf(word.tables[i]) : i \in 1..Len(word.tables)}
        IN  /\ (DOMAIN word.result) \ {WordTemplateIssues} = keys \ {WordTemplateIssues}
            /\ \A k \in keys \ {WordTemplateIssues} :
                   word.result[k] =
                       Join(<<"\n">>,
                            (IF k \in KeysOf(word.tables[1])
                             THEN MetadataValue(word.tables, k) ELSE <<>>)
                            \o CaseValues(word.tables, k))

\* C10's case: a key of the metadata table that two case tables carry too
C10_Witness ==
    /\ word.pc = "done"
    /\ Len(word.tables) = 3
    /\ <<"I","D">> \in DOMAIN word.metadata
    /\ word.metadata[<<"I","D">>] = <<"1">>
    /\ word.result[<<"I","D">>] = <<"1", "\n", "2", "\n", "3">>

----------------------------------------------------------------------------
(* main (src/code.py 175-263).  The ledger read by pd.read_excel and the   *)
(* records the extractors returned (all_files, lines 183-195) are the      *)
(* inputs.  A record, an entry and a report row are dicts from column      *)
(* names to values; the fixed texts of main (error tags, file types) are   *)
(* one-piece texts.  The steps: the ledger is merged (176-178), each       *)
(* extracted record is processed (206-251), the residual rows are added    *)
(* (254-260) and the report is written (262).  An exception ends the run   *)
(* in pc = "aborted" with nothing written.                                 *)

MaxLedgerRows == 2
MaxFiles == 2

\* COLUMN_MAPPING (src/code.py 17-21), in iteration order
COLUMN_MAPPING == << <<"Excel_ID", "ID">>,
                     <<"Excel_Objective", "Objective">>,
                     <<"Excel_Author", "Author">> >>

FilenameMissingInExcel == <<"filename missing in excel">>
FileNotFound == <<"file not found">>

MainLedgerRows ==
    {[c \in Range(LedgerColumns) |-> IF c = "Filename" THEN f ELSE v] :
        f \in { <<"a",".","p","y">>, <<"A",".","p","y">>, <<"b",".","p","y">> },
        v \in { <<"7">>, NaN }}

\* what an extractor returned for one file, with "Filename" and "FileType"
\* set by lines 193-194
ExtractedRecords ==
    {[Filename |-> f, FileType |-> <<"Python">>] @@ d :
        <<f, d>> \in { << <<"a",".","p","y">>, [ID |-> <<"8">>] >>,
                       << <<" ","A",".","p","y">>, EmptyDict >>,
                       << <<"c",".","p","y">>, EmptyDict >>,
                       << <<"c",".","p","y">>, [ID |-> <<"7">>, Error |-> <<"x">>] >> }}

\* line 178: df["Filename"] = df["Filename"].str.strip()
StripFilenames(df) ==
    [df EXCEPT !.rows = [i \in 1..Len(df.rows) |->
                            [df.rows[i] EXCEPT !["Filename"] = Strip(@)]]]

\* lines 199-202: filename key -> row, a later row replacing an earlier one
excel_map(df) ==
    LET key(i) == Lower(Strip(StrOf(df.rows[i]["Filename"])))
    IN  [k \in {key(i) : i \in 1..Len(df.rows)} |->
            df.rows[CHOOSE i \in 1..Len(df.rows) :
                        key(i) = k /\ \A j \in 1..Len(df.rows) : key(j) = k => j <= i]]

\* lines 207-208: file_data.get("Filename", "").strip().lower()
FilenameLower(file_data) ==
    Lower(Strip(IF "Filename" \in DOMAIN file_data THEN file_data["Filename"] ELSE <<>>))

\* lines 247-249 without the test `k not in entry`: an extracted field
\* replaces the standard column of the same name
PassthroughOverwrites(entry, file_data) == file_data @@ entry

\* lines 247-249: the extracted fields fill the columns the entry lacks
Passthrough(entry, file_data) == entry @@ file_data

\* lines 212-216, 241-249 for excel_row None
UnmatchedEntry(file_data) ==
    Passthrough(
        [c \in {"Filename", "FileType", "Title Match %", "Error",
                "Excel Remarks", "File Remarks"} |->
            CASE c = "Filename"      -> Strip(IF "Filename" \in DOMAIN file_data
                                              THEN file_data["Filename"] ELSE <<>>)
              [] c = "FileType"      -> IF "FileType" \in DOMAIN file_data
                                        THEN file_data["FileType"] ELSE <<>>
              [] c = "Title Match %" -> 0
              [] c = "Error"         -> FilenameMissingInExcel
              [] OTHER               -> <<>>],
        file_data)

\* lines 254-260: one row per ledger record whose key was not processed
RECURSIVE ResidualRows(_, _)
ResidualRows(rows, processed_files) ==
    IF rows = <<>> THEN <<>>
    ELSE (IF Lower(Strip(StrOf(Head(rows)["Filename"]))) \notin processed_files
          THEN << [Filename |-> Head(rows)["Filename"], Error |-> FileNotFound] >>
          ELSE <<>>)
         \o ResidualRows(Tail(rows), processed_files)

MainInit ==
    /\ main \in {[pc |-> "start", ledger |-> [columns |-> LedgerColumns, rows |-> rs],
                  df |-> <<>>, all_files |-> fs, i |-> 1, processed_files |-> {},
                  results |-> <<>>, report |-> <<>>, error |-> "none"] :
                     rs \in SeqsUpTo(MainLedgerRows, MaxLedgerRows),
                     fs \in SeqsUpTo(ExtractedRecords, MaxFiles)}
    /\ comment = Idle /\ java = Idle /\ word = Idle /\ merge = Idle

\* lines 176-178: the ledger is merged and its filenames stripped
MainLoadLedger ==
    /\ main.pc = "start"
    /\ "Filename" \in Range(merge_excel_rows(main.ledger).columns)
    /\ main' = [main EXCEPT !.pc = "files",
                            !.df = StripFilenames(merge_excel_rows(main.ledger))]
    /\ UNCHANGED <<comment, java, word, merge>>

\* line 178: a ledger without rows merges to a DataFrame without columns, and
\* df["Filename"] raises KeyError
MainLoadLedgerKeyError ==
    /\ main.pc = "start"
    /\ "Filename" \notin Range(merge_excel_rows(main.ledger).columns)
    /\ main' = [main EXCEPT !.pc = "aborted", !.error = "KeyError"]
    /\ UNCHANGED <<comment, java, word, merge>>

MainAtFile ==
    /\ main.pc = "files"
    /\ main.i <= Len(main.all_files)

\* lines 206-251 with excel_row None: the row is built without a comparison
MainProcessUnmatched ==
    /\ MainAtFile
    /\ LET file_data == main.all_files[main.i]
       IN  /\ FilenameLower(file_data) \notin DOMAIN excel_map(main.df)
           /\ main' = [main EXCEPT
                         !.processed_files = @ \cup {FilenameLower(file_data)},
                         !.results = Append(@, UnmatchedEntry(file_data)),
                         !.i = @ + 1]
    /\ UNCHANGED <<comment, java, word, merge>>

\* lines 206-221 with excel_row a row of df: `if excel_row:` asks a pandas
\* Series for its truth value, which raises ValueError; lines 222-251 never run
MainProcessMatched ==
    /\ MainAtFile
    /\ LET file_data == main.all_files[main.i]
       IN  /\ FilenameLower(file_data) \in DOMAIN excel_map(main.df)
           /\ main' = [main EXCEPT
                         !.processed_files = @ \cup {FilenameLower(file_data)},
                         !.pc = "aborted", !.error = "ValueError"]
    /\ UNCHANGED <<comment, java, word, merge>>

\* lines 254-260: the ledger records no file was found for
MainResidual ==
    /\ main.pc = "files"
    /\ main.i > Len(main.all_files)
    /\ main' = [main EXCEPT
                  !.pc = "write",
                  !.results = @ \o ResidualRows(main.df.rows, main.processed_files)]
    /\ UNCHANGED <<comment, java, word, merge>>

\* line 262: the report is written
MainWrite ==
    /\ main.pc = "write"
    /\ main' = [main EXCEPT !.pc = "done", !.report = main.results]
    /\ UNCHANGED <<comment, java, word, merge>>

MainNext ==
    \/ MainLoadLedger
    \/ MainLoadLedgerKeyError
    \/ MainProcessUnmatched
    \/ MainProcessMatched
    \/ MainResidual
    \/ MainWrite

SpecMain == MainInit /\ [][MainNext]_vars

(* The statements about main.                                              *)

\* the run has ended, normally or by an exception
Terminated == main.pc \in {"done", "aborted"}

\* the LedgerRecords of the run: the merged ledger
LedgerRecords == StripFilenames(merge_excel_rows(main.ledger))

\* the normalized (trimmed, lower-cased) filename of a LedgerRecord
LedgerKey(record) == Lower(Strip(StrOf(record["Filename"])))

\* the extracted record matches a LedgerRecord by normalized filename
IsMatched(file_data) ==
    \E i \in 1..Len(LedgerRecords.rows) :
        LedgerKey(LedgerRecords.rows[i]) = FilenameLower(file_data)

\* the LedgerRecord an extracted record matches
MatchedRecord(file_data) == excel_map(LedgerRecords)[FilenameLower(file_data)]

\* expected: the trimmed ledger value, empty when the record has none
ClaimedExpected(record, excel_col) ==
    IF excel_col \in DOMAIN record /\ record[excel_col] # NaN
    THEN Strip(record[excel_col]) ELSE <<>>

\* actual: the trimmed extracted value, empty when the field was not extracted
ClaimedActual(file_data, field) ==
    IF field \in DOMAIN file_data THEN Strip(file_data[field]) ELSE <<>>

\* the file-side remarks of section 4.6 step 4, in COLUMN_MAPPING order
ClaimedFileRemarks(file_data, record) ==
    LET remark(p) ==
            LET expected == ClaimedExpected(record, p[1])
                actual   == ClaimedActual(file_data, p[2])
            IN  IF expected # <<>> /\ actual = <<>> THEN << <<p[2], ": missing">> >>
                ELSE IF expected # <<>> /\ actual # <<>> /\ expected # actual
                THEN << <<p[2], ": mismatch">> >>
                ELSE <<>>
    IN  Concat([i \in 1..Len(COLUMN_MAPPING) |-> remark(COLUMN_MAPPING[i])])

\* the ledger-side remarks of section 4.6 step 4
ClaimedExcelRemarks(file_data, record) ==
    LET remark(p) ==
            IF ClaimedActual(file_data, p[2]) # <<>> /\ ClaimedExpected(record, p[1]) = <<>>
            THEN << <<p[2], ": missing">> >>
            ELSE <<>>
    IN  Concat([i \in 1..Len(COLUMN_MAPPING) |-> remark(COLUMN_MAPPING[i])])

\* the error tag of section 4.6 step 5
ClaimedError(file_remarks, excel_remarks) ==
    IF file_remarks # <<>> /\ excel_remarks = <<>> THEN <<"mismatch error">>
    ELSE IF excel_remarks # <<>> /\ file_remarks = <<>> THEN <<"missing errors">>
    ELSE IF file_remarks # <<>> /\ excel_remarks # <<>> THEN <<"missing\nmismatch">>
    ELSE <<>>

\* C1: for a ledger with rows, the report is one row per ExtractedRecord, in
\* order, followed by one "file not found" row per LedgerRecord whose
\* normalized filename is that of no ExtractedRecord, in ledger order, and
\* nothing else
\* (refuted by the ledger a.py and the file a.py: the run aborts, no report).
C1_ReportRows ==
    (Terminated /\ main.ledger.rows # <<>>) =>
        /\ main.pc = "done"
        /\ LET n         == Len(main.all_files)
               unmatched == SelectSeq(LedgerRecords.rows,
                                LAMBDA r : \A j \in 1..n :
                                    FilenameLower(main.all_files[j]) # LedgerKey(r))
           IN  /\ Len(main.report) = n + Len(unmatched)
               /\ \A j \in 1..n :
                      /\ main.report[j]["Filename"] = Strip(main.all_files[j]["Filename"])
                      /\ main.report[j]["Error"] # FileNotFound
               /\ \A k \in 1..Len(unmatched) :
                      main.report[n + k] =
                          [Filename |-> unmatched[k]["Filename"], Error |-> FileNotFound]

\* C2: the report row of a matched ExtractedRecord carries the error tag its
\* remark lists determine: "mismatch error", "missing errors",
\* "missing\nmismatch" or the empty text
\* (refuted by the ledger a.py, ID 7, and the file a.py, ID 8: no row at all).
C2_MatchedRowErrorTag ==
    Terminated =>
        \A j \in 1..Len(main.all_files) :
            IsMatched(main.all_files[j]) =>
                /\ main.pc = "done"
                /\ main.report[j]["Error"] =
                       ClaimedError(
                           ClaimedFileRemarks(main.all_files[j],
                                              MatchedRecord(main.all_files[j])),
                           ClaimedExcelRemarks(main.all_files[j],
                                               MatchedRecord(main.all_files[j])))

\* the same, read off the merged ledger main holds once it is loaded
InLedger(file_data) ==
    \E i \in 1..Len(main.df.rows) :
        LedgerKey(main.df.rows[i]) = FilenameLower(file_data)

\* C3: a row emitted for an ExtractedRecord that matches no LedgerRecord has
\* Error = "filename missing in excel", Title Match % = 0 and empty remarks,
\* whatever fields were extracted.
C3_UnmatchedRow ==
    \A rows \in {main.results, main.report} :
        \A j \in 1..Len(rows) :
            (j <= Len(main.all_files) /\ ~InLedger(main.all_files[j])) =>
                /\ rows[j]["Error"] = FilenameMissingInExcel
                /\ rows[j]["Title Match %"] = 0
                /\ rows[j]["Excel Remarks"] = <<>>
                /\ rows[j]["File Remarks"] = <<>>

\* C3's case: a written report with the row of an unmatched record whose
\* extracted fields include one named "Error"
C3_Witness ==
    /\ main.pc = "done"
    /\ \E j \in 1..Len(main.all_files) :
           /\ ~InLedger(main.all_files[j])
           /\ "Error" \in DOMAIN main.all_files[j]
           /\ main.report[j]["ID"] = <<"7">>
           /\ main.report[j]["Error"] = FilenameMissingInExcel

\* C4: a matched record whose fields diverge from the ledger's does not abort
\* the run: the run ends with the report written and the divergence is an
\* error tag in that record's row
\* (refuted by the ledger a.py, ID 7, and the file a.py, ID 8: ValueError).
C4_DivergenceNeverAborts ==
    Terminated =>
        \A j \in 1..Len(main.all_files) :
            (/\ IsMatched(main.all_files[j])
             /\ ClaimedFileRemarks(main.all_files[j],
                                   MatchedRecord(main.all_files[j])) # <<>>) =>
                /\ main.pc = "done"
                /\ main.report[j]["Error"] # <<>>

\* C9: the remarks in the report row of a matched ExtractedRecord are, per
\* COLUMN_MAPPING pair: file-side "<field>: missing" iff expected is non-empty
\* and actual empty, ledger-side "<field>: missing" iff actual is non-empty and
\* expected empty, file-side "<field>: mismatch" iff both are non-empty and
\* differ, and none otherwise
\* (refuted by any matched record: no row at all).
C9_MatchedRowRemarks ==
    Terminated =>
        \A j \in 1..Len(main.all_files) :
            IsMatched(main.all_files[j]) =>
                /\ main.pc = "done"
                /\ main.report[j]["File Remarks"] =
                       Join(<<"; ">>, ClaimedFileRemarks(main.all_files[j],
                                          MatchedRecord(main.all_files[j])))
                /\ main.report[j]["Excel Remarks"] =
                       Join(<<"; ">>, ClaimedExcelRemarks(main.all_files[j],
                                          MatchedRecord(main.all_files[j])))

============================================================================
